---------------------------- MODULE Spec2Model ----------------------------
(* Frame tree of bb_cs.py: CoordinateSystem, Position, route and the      *)
(* transform builder.  Angles are whole multiples of 90 degrees and       *)
(* translations are integers, so that every matrix of the program is an   *)
(* integer matrix and numpy's products and inverses are exact.            *)
EXTENDS Integers, Sequences, FiniteSets, TLC

(* ---------------------------------------------------------------------- *)
(* Bounds of the model                                                    *)
(* ---------------------------------------------------------------------- *)
MaxFrames == 3
MaxRoutes == 1

(* Python's None, for optional arguments and for an unfilled matrix: an   *)
(* optional value is <<>> (None) or <<v>> (the value v).                  *)
None == <<>>
Some(v) == <<v>>
IsNone(a) == a = <<>>
Val(a) == a[1]

(* ---------------------------------------------------------------------- *)
(* Matrices (numpy arrays): a matrix is a tuple of rows                   *)
(* ---------------------------------------------------------------------- *)
\* numpy.dot of a 4 x 4 array and a 4 x 4 or 4 x 1 array
dot(A, B) ==
    LET e(i, j) == A[i][1] * B[1][j] + A[i][2] * B[2][j]
                   + A[i][3] * B[3][j] + A[i][4] * B[4][j]
        row(i) == IF Len(B[1]) = 1 THEN <<e(i, 1)>>
                  ELSE <<e(i, 1), e(i, 2), e(i, 3), e(i, 4)>>
    IN <<row(1), row(2), row(3), row(4)>>

identity4 ==
    << <<1, 0, 0, 0>>, <<0, 1, 0, 0>>, <<0, 0, 1, 0>>, <<0, 0, 0, 1>> >>

\* the 3 x 3 matrix left of the 4 x 4 matrix M without row r and column c
Minor(M, r, c) ==
    LET at(i, j) == M[IF i < r THEN i ELSE i + 1][IF j < c THEN j ELSE j + 1]
        row(i) == <<at(i, 1), at(i, 2), at(i, 3)>>
    IN <<row(1), row(2), row(3)>>

Det3(M) ==
    M[1][1] * (M[2][2] * M[3][3] - M[2][3] * M[3][2])
    - M[1][2] * (M[2][1] * M[3][3] - M[2][3] * M[3][1])
    + M[1][3] * (M[2][1] * M[3][2] - M[2][2] * M[3][1])

Sign(k) == IF k % 2 = 0 THEN 1 ELSE -1

\* the cofactor of M at row r and column c
Cofactor(M, r, c) == Sign(r + c) * Det3(Minor(M, r, c))

Det(M) ==
    M[1][1] * Cofactor(M, 1, 1) + M[1][2] * Cofactor(M, 1, 2)
    + M[1][3] * Cofactor(M, 1, 3) + M[1][4] * Cofactor(M, 1, 4)

\* numpy.linalg.inv of a 4 x 4 array: the adjugate over the determinant
\* (exact for the program's matrices, whose determinant is 1)
inv(M) ==
    LET d == Det(M)
        e(i, j) == Cofactor(M, j, i) \div d
        row(i) == <<e(i, 1), e(i, 2), e(i, 3), e(i, 4)>>
    IN <<row(1), row(2), row(3), row(4)>>

(* ---------------------------------------------------------------------- *)
(* Transform builder                                                      *)
(* ---------------------------------------------------------------------- *)
\* cos(radians(a)) and sin(radians(a)) for a a multiple of 90
cosd(a) == CASE a % 360 = 0 -> 1 [] a % 360 = 90 -> 0
             [] a % 360 = 180 -> -1 [] a % 360 = 270 -> 0
sind(a) == CASE a % 360 = 0 -> 0 [] a % 360 = 90 -> 1
             [] a % 360 = 180 -> 0 [] a % 360 = 270 -> -1

\* transformations.euler_matrix(ai, aj, ak, 'rzxy'), angles in degrees here:
\* axes tuple (firstaxis 1, parity 1, repetition 0, frame 1), so i, j, k are
\* the rows 2, 1, 3 (1-based), ai and ak are swapped, and all three negated
euler_matrix_rzxy(a1, a2, a3) ==
    LET ai == 0 - a3
        aj == 0 - a2
        ak == 0 - a1
        si == sind(ai)  sj == sind(aj)  sk == sind(ak)
        ci == cosd(ai)  cj == cosd(aj)  ck == cosd(ak)
        cc == ci * ck   cs == ci * sk
        sc == si * ck   ss == si * sk
        i == 2  j == 1  k == 3
        e(r, c) ==
            CASE r = i /\ c = i -> cj * ck
              [] r = i /\ c = j -> sj * sc - cs
              [] r = i /\ c = k -> sj * cc + ss
              [] r = j /\ c = i -> cj * sk
              [] r = j /\ c = j -> sj * ss + cc
              [] r = j /\ c = k -> sj * cs - sc
              [] r = k /\ c = i -> 0 - sj
              [] r = k /\ c = j -> cj * si
              [] r = k /\ c = k -> cj * ci
              [] OTHER -> IF r = c THEN 1 ELSE 0
        row(r) == <<e(r, 1), e(r, 2), e(r, 3), e(r, 4)>>
    IN <<row(1), row(2), row(3), row(4)>>

\* transformations.translation_matrix((x, y, z))
translation_matrix(x, y, z) ==
    << <<1, 0, 0, x>>, <<0, 1, 0, y>>, <<0, 0, 1, z>>, <<0, 0, 0, 1>> >>

calc_transformation_matrix(x, y, z, rotx, roty, rotz) ==
    dot(translation_matrix(x, y, z), euler_matrix_rzxy(rotz, rotx, roty))

(* ---------------------------------------------------------------------- *)
(* State                                                                  *)
(* ---------------------------------------------------------------------- *)
VARIABLES
    frames,      \* the CoordinateSystem objects, by identity 1..Len(frames)
    route_base,  \* the module-level dict of found routes, keyed by a string
    ret,         \* the last call: operation, receiver, arguments and outcome
    backed,      \* history: per frame, what its last backup() calls found
    routed,      \* history: per ordered pair of frames of one tree, what
                 \* the first call of route() for that pair returned
    threads      \* the calls two threads are in the middle of: where each
                 \* stands in its method (pc, 0: in none) and its locals

vars == <<frames, route_base, ret, backed, routed, threads>>

FrameIds == 1..Len(frames)

\* the six pose scalars of a frame record, in the order of the constructor
Pose(fr) == <<fr.x, fr.y, fr.z, fr.rotx, fr.roty, fr.rotz>>
Stored(fr) ==
    <<fr.x_stored, fr.y_stored, fr.z_stored,
      fr.rotx_stored, fr.roty_stored, fr.rotz_stored>>

(* ---------------------------------------------------------------------- *)
(* CoordinateSystem                                                       *)
(* ---------------------------------------------------------------------- *)
\* redefine that leaves a filled mat_from_parent in place
redefine_stale(fr, a) ==
    LET x == IF IsNone(a[1]) THEN fr.x ELSE Val(a[1])
        y == IF IsNone(a[2]) THEN fr.y ELSE Val(a[2])
        z == IF IsNone(a[3]) THEN fr.z ELSE Val(a[3])
        rotx == IF IsNone(a[4]) THEN fr.rotx ELSE Val(a[4])
        roty == IF IsNone(a[5]) THEN fr.roty ELSE Val(a[5])
        rotz == IF IsNone(a[6]) THEN fr.rotz ELSE Val(a[6])
    IN [fr EXCEPT !.x = x, !.y = y, !.z = z,
                  !.rotx = rotx, !.roty = roty, !.rotz = rotz,
                  !.mat_to_parent =
                      calc_transformation_matrix(x, y, z, rotx, roty, rotz)]

\* redefine that takes a supplied 0 for an omitted x ("if not new_x")
redefine_falsy(fr, a) ==
    LET x == IF IsNone(a[1]) \/ a[1] = Some(0) THEN fr.x ELSE Val(a[1])
        y == IF IsNone(a[2]) THEN fr.y ELSE Val(a[2])
        z == IF IsNone(a[3]) THEN fr.z ELSE Val(a[3])
        rotx == IF IsNone(a[4]) THEN fr.rotx ELSE Val(a[4])
        roty == IF IsNone(a[5]) THEN fr.roty ELSE Val(a[5])
        rotz == IF IsNone(a[6]) THEN fr.rotz ELSE Val(a[6])
    IN [fr EXCEPT !.x = x, !.y = y, !.z = z,
                  !.rotx = rotx, !.roty = roty, !.rotz = rotz,
                  !.mat_to_parent =
                      calc_transformation_matrix(x, y, z, rotx, roty, rotz),
                  !.mat_from_parent = None]

\* redefine(new_x, ..., new_rotz) on the frame record fr; a is the tuple of
\* the six optional arguments
redefine(fr, a) ==
    LET x == IF IsNone(a[1]) THEN fr.x ELSE Val(a[1])
        y == IF IsNone(a[2]) THEN fr.y ELSE Val(a[2])
        z == IF IsNone(a[3]) THEN fr.z ELSE Val(a[3])
        rotx == IF IsNone(a[4]) THEN fr.rotx ELSE Val(a[4])
        roty == IF IsNone(a[5]) THEN fr.roty ELSE Val(a[5])
        rotz == IF IsNone(a[6]) THEN fr.rotz ELSE Val(a[6])
    IN [fr EXCEPT !.x = x, !.y = y, !.z = z,
                  !.rotx = rotx, !.roty = roty, !.rotz = rotz,
                  !.mat_to_parent =
                      calc_transformation_matrix(x, y, z, rotx, roty, rotz),
                  !.mat_from_parent = None]

\* redefine_tuple((x, y, z), (rotx, roty, rotz))
redefine_tuple(fr, t, r) ==
    redefine(fr, <<t[1], t[2], t[3], r[1], r[2], r[3]>>)

\* CoordinateSystem.__init__(parent_cs, name, x, y, z, rotx, roty, rotz)
CoordinateSystem(parent_cs, name, p) ==
    redefine([parent |-> parent_cs, name |-> name,
              x |-> p[1], y |-> p[2], z |-> p[3],
              rotx |-> p[4], roty |-> p[5], rotz |-> p[6],
              mat_from_parent |-> None, mat_to_parent |-> None,
              x_stored |-> p[1], y_stored |-> p[2], z_stored |-> p[3],
              rotx_stored |-> p[4], roty_stored |-> p[5],
              rotz_stored |-> p[6]],
             <<Some(p[1]), Some(p[2]), Some(p[3]),
               Some(p[4]), Some(p[5]), Some(p[6])>>)

\* update_mat_from_parent that transposes instead of inverting
update_mat_from_parent_transposed(fr) ==
    [fr EXCEPT !.mat_from_parent =
        LET M == fr.mat_to_parent
            row(i) == <<M[1][i], M[2][i], M[3][i], M[4][i]>>
        IN <<row(1), row(2), row(3), row(4)>>]

update_mat_from_parent(fr) ==
    [fr EXCEPT !.mat_from_parent = inv(fr.mat_to_parent)]

\* get_derivative(name, d_x, ..., d_rotz): the pose of the new frame, or a
\* TypeError where the code adds None to a number.  The three rotation
\* branches test d_z.
get_derivative(fr, d) ==
    LET x == IF IsNone(d[1]) THEN fr.x ELSE fr.x + Val(d[1])
        y == IF IsNone(d[2]) THEN fr.y ELSE fr.y + Val(d[2])
        z == IF IsNone(d[3]) THEN fr.z ELSE fr.z + Val(d[3])
    IN IF IsNone(d[3])
       THEN [ok |-> TRUE, exc |-> "",
             pose |-> <<x, y, z, fr.rotx, fr.roty, fr.rotz>>]
       ELSE IF IsNone(d[4]) \/ IsNone(d[5]) \/ IsNone(d[6])
            THEN [ok |-> FALSE, exc |-> "TypeError", pose |-> <<>>]
            ELSE [ok |-> TRUE, exc |-> "",
                  pose |-> <<x, y, z, fr.rotx + Val(d[4]),
                             fr.roty + Val(d[5]), fr.rotz + Val(d[6])>>]

\* backup that misses the last scalar
backup_without_rotz(fr) ==
    [fr EXCEPT !.x_stored = fr.x, !.y_stored = fr.y, !.z_stored = fr.z,
               !.rotx_stored = fr.rotx, !.roty_stored = fr.roty]

backup(fr) ==
    [fr EXCEPT !.x_stored = fr.x, !.y_stored = fr.y, !.z_stored = fr.z,
               !.rotx_stored = fr.rotx, !.roty_stored = fr.roty,
               !.rotz_stored = fr.rotz]

\* rollback that restores the translation only
rollback_translation(fr) ==
    [fr EXCEPT !.x = fr.x_stored, !.y = fr.y_stored, !.z = fr.z_stored,
               !.mat_to_parent =
                   calc_transformation_matrix(fr.x_stored, fr.y_stored,
                                              fr.z_stored, fr.rotx, fr.roty,
                                              fr.rotz),
               !.mat_from_parent = None]

rollback(fr) ==
    redefine(fr, <<Some(fr.x_stored), Some(fr.y_stored), Some(fr.z_stored),
                   Some(fr.rotx_stored), Some(fr.roty_stored),
                   Some(fr.rotz_stored)>>)

\* to_root: the frames from f up to its topmost ancestor, f first
RECURSIVE to_root(_, _)
to_root(fs, f) ==
    IF fs[f].parent = 0 THEN <<f>> ELSE <<f>> \o to_root(fs, fs[f].parent)

(* ---------------------------------------------------------------------- *)
(* Route resolver                                                         *)
(* ---------------------------------------------------------------------- *)
Range(s) == {s[i] : i \in 1..Len(s)}

\* list.index: the first place of e in s (1-based)
IndexOf(s, e) == CHOOSE i \in 1..Len(s) : s[i] = e /\ \A j \in 1..(i - 1) : s[j] # e

\* closest_common_node that returns the last common node of the way up
closest_common_node_topmost(fs, cs1, cs2) ==
    LET cs1_to_root == to_root(fs, cs1)
        cs2_to_root == to_root(fs, cs2)
        hits == {i \in 1..Len(cs1_to_root) : cs1_to_root[i] \in Range(cs2_to_root)}
    IN IF hits = {} THEN None
       ELSE Some(cs1_to_root[CHOOSE i \in hits : \A j \in hits : i >= j])

\* closest_common_node(cs1, cs2): the first node of cs1.to_root that is in
\* cs2.to_root; the loop ends without a return (None) when there is none
closest_common_node(fs, cs1, cs2) ==
    LET cs1_to_root == to_root(fs, cs1)
        cs2_to_root == to_root(fs, cs2)
        hits == {i \in 1..Len(cs1_to_root) : cs1_to_root[i] \in Range(cs2_to_root)}
    IN IF hits = {} THEN None
       ELSE Some(cs1_to_root[CHOOSE i \in hits : \A j \in hits : i <= j])

\* route_desc = from_cs.name + "-" + to_cs.name
route_desc(fs, from_cs, to_cs) == fs[from_cs].name \o "-" \o fs[to_cs].name

\* the search of route() with the frames strictly between the pivot and
\* to_cs as its "down" steps
build_route_between(fs, from_cs, to_cs) ==
    LET cs1_to_root == to_root(fs, from_cs)
        cs2_to_root == to_root(fs, to_cs)
        hits == {i \in 1..Len(cs1_to_root) : cs1_to_root[i] \in Range(cs2_to_root)}
    IN IF hits = {} THEN None
       ELSE LET k == CHOOSE i \in hits : \A j \in hits : i <= j
                node == cs1_to_root[k]
                intersection_index == IndexOf(cs2_to_root, node)
                ups == [i \in 1..(k - 1) |-> <<cs1_to_root[i], "up">>]
                downs == [i \in 1..(intersection_index - 2) |->
                             <<cs2_to_root[intersection_index - i], "down">>]
            IN Some(ups \o << <<node, "root">> >> \o downs)

\* the search of route(), without the dict: None when the chains are disjoint
build_route(fs, from_cs, to_cs) ==
    LET cs1_to_root == to_root(fs, from_cs)
        cs2_to_root == to_root(fs, to_cs)
        hits == {i \in 1..Len(cs1_to_root) : cs1_to_root[i] \in Range(cs2_to_root)}
    IN IF hits = {} THEN None
       ELSE LET k == CHOOSE i \in hits : \A j \in hits : i <= j
                node == cs1_to_root[k]
                intersection_index == IndexOf(cs2_to_root, node)
                ups == [i \in 1..(k - 1) |-> <<cs1_to_root[i], "up">>]
                \* cs2_to_root[intersection_index - 1::-1]
                downs == [i \in 1..(intersection_index - 1) |->
                             <<cs2_to_root[intersection_index - i], "down">>]
            IN Some(ups \o << <<node, "root">> >> \o downs)

\* route that searches whether or not the dict has the key
route_uncached(fs, rb, from_cs, to_cs) ==
    LET desc == route_desc(fs, from_cs, to_cs)
        built == build_route(fs, from_cs, to_cs)
    IN IF IsNone(built)
       THEN [out |-> None, route_base |-> rb, to_root_calls |-> 2]
       ELSE [out |-> built, to_root_calls |-> 2,
             route_base |-> [key \in DOMAIN rb \cup {desc} |->
                                IF key = desc THEN Val(built) ELSE rb[key]]]

\* route that keeps only the path it found last
route_forgetful(fs, rb, from_cs, to_cs) ==
    LET desc == route_desc(fs, from_cs, to_cs)
        built == build_route(fs, from_cs, to_cs)
    IN IF desc \in DOMAIN rb
       THEN [out |-> Some(rb[desc]), route_base |-> rb, to_root_calls |-> 0]
       ELSE IF IsNone(built)
            THEN [out |-> None, route_base |-> rb, to_root_calls |-> 2]
            ELSE [out |-> built, to_root_calls |-> 2,
                  route_base |-> [key \in {desc} |-> Val(built)]]

\* route(from_cs, to_cs): the returned value (None or Some(path)), the dict,
\* and how many times the call read the property to_root
route(fs, rb, from_cs, to_cs) ==
    LET desc == route_desc(fs, from_cs, to_cs)
        built == build_route(fs, from_cs, to_cs)
    IN IF desc \in DOMAIN rb
       THEN [out |-> Some(rb[desc]), route_base |-> rb, to_root_calls |-> 0]
       ELSE IF IsNone(built)
            THEN [out |-> None, route_base |-> rb, to_root_calls |-> 2]
            ELSE [out |-> built, to_root_calls |-> 2,
                  route_base |-> [key \in DOMAIN rb \cup {desc} |->
                                     IF key = desc THEN Val(built) ELSE rb[key]]]

(* ---------------------------------------------------------------------- *)
(* Conversion                                                             *)
(* ---------------------------------------------------------------------- *)
\* reduce(numpy.dot, L) for a non-empty list L
RECURSIVE reduce_dot(_)
reduce_dot(L) ==
    IF Len(L) = 1 THEN L[1]
    ELSE dot(reduce_dot(SubSeq(L, 1, Len(L) - 1)), L[Len(L)])

\* a slice that keeps the order
Reversed_kept(L) == [i \in 1..Len(L) |-> L[i]]

\* L[::-1]
Reversed(L) == [i \in 1..Len(L) |-> L[Len(L) + 1 - i]]

\* if node.mat_from_parent is None: node.update_mat_from_parent()
update_mat_from_parent_if_none(fr) ==
    IF IsNone(fr.mat_from_parent) THEN update_mat_from_parent(fr) ELSE fr

\* a loop that fills the inverse of every node of the route
fill_down_every(fs, path) ==
    [f \in 1..Len(fs) |->
        IF \E i \in 1..Len(path) : path[i][1] = f
        THEN update_mat_from_parent_if_none(fs[f])
        ELSE fs[f]]

\* the frames after the loop over conversion_route: every "down" node whose
\* mat_from_parent is None has had update_mat_from_parent() called
fill_down(fs, path) ==
    [f \in 1..Len(fs) |->
        IF \E i \in 1..Len(path) : path[i] = <<f, "down">>
        THEN update_mat_from_parent_if_none(fs[f])
        ELSE fs[f]]

\* transformation_matrices after the loop: one matrix per "up" or "down" node
transformation_matrices(fs, path) ==
    LET steps == SelectSeq(path, LAMBDA node : node[2] # "root")
    IN [i \in 1..Len(steps) |->
           IF steps[i][2] = "up"
           THEN fs[steps[i][1]].mat_to_parent
           ELSE update_mat_from_parent_if_none(fs[steps[i][1]]).mat_from_parent]

\* to_this past its first test, for a position of another frame: the two
\* branches for an immediate relative and the branch along the route
to_this_other(fs, rb, self, position) ==
    LET pos_array == << <<position.x>>, <<position.y>>, <<position.z>>, <<1>> >>
        \* position_in_this after fill_position(arr)
        filled(fs2, rb2, arr) ==
            [ok |-> TRUE, exc |-> "", same |-> FALSE,
             pos |-> [owner |-> self, x |-> arr[1][1], y |-> arr[2][1],
                      z |-> arr[3][1]],
             frames |-> fs2, route_base |-> rb2]
        raised(fs2, rb2, e) ==
            [ok |-> FALSE, exc |-> e, same |-> FALSE, pos |-> None,
             frames |-> fs2, route_base |-> rb2]
        general(r) ==
            IF IsNone(r.out)
            \* the raise statement formats str(position), which calls the
            \* property __str__ of the owner: a TypeError leaves instead of
            \* the Exception with the message
            THEN raised(fs, r.route_base, "TypeError")
            ELSE IF \A i \in 1..Len(Val(r.out)) : Val(r.out)[i][2] = "root"
            \* no matrix was gathered: reduce() of an empty sequence
            THEN raised(fill_down(fs, Val(r.out)), r.route_base, "TypeError")
            ELSE filled(fill_down(fs, Val(r.out)), r.route_base,
                        dot(reduce_dot(Reversed(
                                transformation_matrices(fs, Val(r.out)))),
                            pos_array))
    IN IF fs[position.owner].parent = self
       THEN filled(fs, rb, dot(fs[position.owner].mat_to_parent, pos_array))
       ELSE IF position.owner = fs[self].parent
       THEN LET fr == update_mat_from_parent_if_none(fs[self])
            IN filled([fs EXCEPT ![self] = fr], rb,
                      dot(fr.mat_from_parent, pos_array))
       ELSE general(route(fs, rb, position.owner, self))

\* to_this that answers a position of this frame with a copy of it
to_this_copy(fs, rb, self, position) ==
    IF position.owner = self
    THEN [ok |-> TRUE, exc |-> "", same |-> FALSE, pos |-> position,
          frames |-> fs, route_base |-> rb]
    ELSE to_this_other(fs, rb, self, position)

\* self.to_this(position): the outcome and the state the call leaves.  ok
\* with the returned Position pos, which is the argument object itself when
\* same is TRUE and a new object otherwise; or the exception exc.
to_this(fs, rb, self, position) ==
    IF position.owner = self
    THEN [ok |-> TRUE, exc |-> "", same |-> TRUE, pos |-> position,
          frames |-> fs, route_base |-> rb]
    ELSE to_this_other(fs, rb, self, position)

(* ---------------------------------------------------------------------- *)
(* Inputs                                                                 *)
(* ---------------------------------------------------------------------- *)
Origin == <<0, 0, 0, 0, 0, 0>>

\* the frames a caller constructs: a name and the pose that goes with it
CtorArgs ==
    { <<"a", Origin>>,
      <<"a-b", <<1, 0, 0, 0, 0, 90>> >>,
      <<"b-a", <<0, 1, 0, 90, 0, 0>> >> }

\* names are unique across the frames (the caller's obligation)
FreeCtorArgs == {c \in CtorArgs : \A f \in FrameIds : frames[f].name # c[1]}

\* the coordinates of the positions a caller converts
PositionArgs == { <<0, 0, 0>>, <<1, 2, 3>> }

\* argument tuples with the value of each axis fixed: none supplied, all
\* supplied, each axis alone, and all but each axis
NewPose == <<0, 2, 3, 90, 180, 270>>
ArgsOn(S) == [i \in 1..6 |-> IF i \in S THEN Some(NewPose[i]) ELSE None]
WideArgs ==
    {ArgsOn({})} \cup {ArgsOn(1..6)}
    \cup {ArgsOn({i}) : i \in 1..6} \cup {ArgsOn((1..6) \ {i}) : i \in 1..6}

\* two argument tuples for the calls on the child: a shift with a quarter
\* turn, and the shift back
FewArgs ==
    { <<Some(2), None, None, None, None, Some(180)>>,
      <<Some(1), None, None, None, None, None>> }

\* one change of pose
OneArgs == { <<Some(2), None, None, None, None, Some(180)>> }

\* the offsets of a derivative in the life of the child
FewOffsets == { <<Some(1), None, None, None, None, None>> }

(* ---------------------------------------------------------------------- *)
(* Operations                                                             *)
(* ---------------------------------------------------------------------- *)
\* no thread is in a call
Idle ==
    [redefine |-> [pc |-> 0, a |-> <<None, None, None, None, None, None>>,
                   loc |-> Origin],
     to_this |-> [pc |-> 0, position |-> None, m |-> None]]

\* a call and its outcome: the operation, its receiver self, whether it
\* returned (ok) or raised; cs is the frame it names or creates (0: none),
\* position the Position handed to it, pos the Position it returned, same
\* whether that is the very object handed in, path the route it returned,
\* to_root_calls the reads of to_root it made, node the frame it returned
Call(op, self, ok) ==
    [op |-> op, self |-> self, ok |-> ok, cs |-> 0, position |-> None,
     same |-> FALSE, pos |-> None, path |-> None, to_root_calls |-> 0,
     node |-> None]

\* what a frame is: its pose and its two matrices
Snapshot(fr) ==
    [pose |-> Pose(fr), mat_to_parent |-> fr.mat_to_parent,
     mat_from_parent |-> fr.mat_from_parent]

\* history of frame f: <<>> before its first backup(); then the frame as the
\* last backup() found it, whether its pose was changed since (moved), and
\* the pose of the backup() before that one (<<>> when there is none)
Backed(f, fr) ==
    [at |-> Snapshot(fr), moved |-> FALSE,
     before |-> IF backed[f] = <<>> THEN <<>> ELSE backed[f][1].at.pose]
Moved(f, fr) ==
    IF backed[f] # <<>> /\ Pose(fr) # Pose(frames[f])
    THEN <<[backed[f][1] EXCEPT !.moved = TRUE]>>
    ELSE backed[f]

\* CoordinateSystem(parent_cs, name, x, y, z, rotx, roty, rotz)
NewFrame(parent_cs, name, p) ==
    /\ Len(frames) < MaxFrames
    /\ frames' = Append(frames, CoordinateSystem(parent_cs, name, p))
    /\ backed' = Append(backed, <<>>)
    /\ ret' = [Call("CoordinateSystem", 0, TRUE) EXCEPT !.cs = Len(frames) + 1]
    /\ UNCHANGED <<route_base, routed, threads>>

Redefine(f, a) ==
    \E fr \in {redefine(frames[f], a)} :
       /\ frames' = [frames EXCEPT ![f] = fr]
       /\ backed' = [backed EXCEPT ![f] = Moved(f, fr)]
       /\ ret' = Call("redefine", f, TRUE)
       /\ UNCHANGED <<route_base, routed, threads>>

RedefineTuple(f, t, r) ==
    \E fr \in {redefine_tuple(frames[f], t, r)} :
       /\ frames' = [frames EXCEPT ![f] = fr]
       /\ backed' = [backed EXCEPT ![f] = Moved(f, fr)]
       /\ ret' = Call("redefine_tuple", f, TRUE)
       /\ UNCHANGED <<route_base, routed, threads>>

Backup(f) ==
    /\ frames' = [frames EXCEPT ![f] = backup(@)]
    /\ backed' = [backed EXCEPT ![f] = <<Backed(f, frames[f])>>]
    /\ ret' = Call("backup", f, TRUE)
    /\ UNCHANGED <<route_base, routed, threads>>

Rollback(f) ==
    /\ frames' = [frames EXCEPT ![f] = rollback(@)]
    /\ ret' = Call("rollback", f, TRUE)
    /\ UNCHANGED <<route_base, backed, routed, threads>>

GetDerivative(f, name, d) ==
    /\ Len(frames) < MaxFrames
    /\ \E r \in {get_derivative(frames[f], d)} :
          IF r.ok
          THEN /\ frames' = Append(frames,
                                   CoordinateSystem(frames[f].parent, name, r.pose))
               /\ backed' = Append(backed, <<>>)
               /\ ret' = [Call("get_derivative", f, TRUE)
                             EXCEPT !.cs = Len(frames) + 1]
          ELSE /\ ret' = Call("get_derivative", f, FALSE)
               /\ UNCHANGED <<frames, backed>>
    /\ UNCHANGED <<route_base, routed, threads>>

\* Position(owner_cs, x, y, z)
Position(owner_cs, c) == [owner |-> owner_cs, x |-> c[1], y |-> c[2], z |-> c[3]]

\* the frames a and b of fs have a common node on their ways to the root
connected(fs, a, b) == Range(to_root(fs, a)) \cap Range(to_root(fs, b)) # {}

\* the history after a call of route(from_cs, to_cs) that returned out
Routed(from_cs, to_cs, out) ==
    IF \/ ~connected(frames, from_cs, to_cs)
       \/ \E e \in routed : e[1] = from_cs /\ e[2] = to_cs
    THEN routed
    ELSE routed \cup {<<from_cs, to_cs, out>>}

\* to_this reaches its call of route(): the position is not of this frame,
\* nor of a child of it, nor of its parent
calls_route(fs, self, position) ==
    /\ position.owner # self
    /\ fs[position.owner].parent # self
    /\ position.owner # fs[self].parent

\* f.to_this(position) for a Position the caller has constructed
ToThis(f, position) ==
    \E r \in {to_this(frames, route_base, f, position)} :
       /\ Cardinality(DOMAIN r.route_base) <= MaxRoutes
       /\ frames' = r.frames
       /\ route_base' = r.route_base
       /\ ret' = [Call("to_this", f, r.ok)
                     EXCEPT !.position = Some(position), !.same = r.same,
                            !.pos = IF r.ok THEN Some(r.pos) ELSE None]
       /\ routed' = IF calls_route(frames, f, position)
                     THEN Routed(position.owner, f,
                                 route(frames, route_base, position.owner, f).out)
                     ELSE routed
       /\ UNCHANGED <<backed, threads>>

Route(from_cs, to_cs) ==
    \E r \in {route(frames, route_base, from_cs, to_cs)} :
       /\ Cardinality(DOMAIN r.route_base) <= MaxRoutes
       /\ route_base' = r.route_base
       /\ ret' = [Call("route", from_cs, TRUE)
                     EXCEPT !.cs = to_cs, !.path = r.out,
                            !.to_root_calls = r.to_root_calls]
       /\ routed' = Routed(from_cs, to_cs, r.out)
       /\ UNCHANGED <<frames, backed, threads>>

ClosestCommonNode(cs1, cs2) ==
    /\ ret' = [Call("closest_common_node", cs1, TRUE)
                  EXCEPT !.cs = cs2,
                         !.node = closest_common_node(frames, cs1, cs2),
                         !.to_root_calls = 2]
    /\ UNCHANGED <<frames, route_base, backed, routed, threads>>

(* ---------------------------------------------------------------------- *)
(* redefine and to_this statement by statement, for two threads: each     *)
(* action is one read or one write of an attribute of the frame f         *)
(* ---------------------------------------------------------------------- *)
\* the frame with its i-th pose scalar set to v
SetAxis(fr, i, v) ==
    CASE i = 1 -> [fr EXCEPT !.x = v]
      [] i = 2 -> [fr EXCEPT !.y = v]
      [] i = 3 -> [fr EXCEPT !.z = v]
      [] i = 4 -> [fr EXCEPT !.rotx = v]
      [] i = 5 -> [fr EXCEPT !.roty = v]
      [] i = 6 -> [fr EXCEPT !.rotz = v]

\* a thread calls f.redefine with the arguments a
RedefineCall(f, a) ==
    /\ threads.redefine.pc = 0
    /\ threads' = [threads EXCEPT !.redefine = [pc |-> 1, a |-> a, loc |-> Origin]]
    /\ UNCHANGED <<frames, route_base, ret, backed, routed>>

\* the if statement of the i-th argument: the local takes the attribute's
\* value (argument omitted), or the local and the attribute take the
\* argument's
RedefineAxis(f) ==
    LET t == threads.redefine
        i == t.pc
    IN /\ t.pc \in 1..6
       /\ IF IsNone(t.a[i])
          THEN /\ threads' = [threads EXCEPT !.redefine.pc = i + 1,
                                            !.redefine.loc[i] = Pose(frames[f])[i]]
               /\ UNCHANGED frames
          ELSE /\ threads' = [threads EXCEPT !.redefine.pc = i + 1,
                                            !.redefine.loc[i] = Val(t.a[i])]
               /\ frames' = [frames EXCEPT ![f] = SetAxis(@, i, Val(t.a[i]))]
       /\ UNCHANGED <<route_base, ret, backed, routed>>

\* self._mat_to_parent = calc_transformation_matrix(x, y, z, rotx, roty, rotz)
RedefineMatrix(f) ==
    LET loc == threads.redefine.loc
    IN /\ threads.redefine.pc = 7
       /\ frames' = [frames EXCEPT ![f].mat_to_parent =
                        calc_transformation_matrix(loc[1], loc[2], loc[3],
                                                   loc[4], loc[5], loc[6])]
       /\ threads' = [threads EXCEPT !.redefine.pc = 8]
       /\ UNCHANGED <<route_base, ret, backed, routed>>

\* self._mat_from_parent = None, and the call returns
RedefineClear(f) ==
    /\ threads.redefine.pc = 8
    /\ frames' = [frames EXCEPT ![f].mat_from_parent = None]
    /\ threads' = [threads EXCEPT !.redefine = Idle.redefine]
    /\ ret' = Call("redefine", f, TRUE)
    /\ UNCHANGED <<route_base, backed, routed>>

\* a thread calls f.to_this(position) for a position of the parent of f
ConvertCall(f, position) ==
    /\ threads.to_this.pc = 0
    /\ position.owner = frames[f].parent
    /\ threads' = [threads EXCEPT !.to_this =
                      [pc |-> 1, position |-> Some(position), m |-> None]]
    /\ UNCHANGED <<frames, route_base, ret, backed, routed>>

\* if self._mat_from_parent is None
ConvertTest(f) ==
    /\ threads.to_this.pc = 1
    /\ threads' = [threads EXCEPT !.to_this.pc =
                      IF IsNone(frames[f].mat_from_parent) THEN 2 ELSE 4]
    /\ UNCHANGED <<frames, route_base, ret, backed, routed>>

\* update_mat_from_parent reads self._mat_to_parent
ConvertRead(f) ==
    /\ threads.to_this.pc = 2
    /\ threads' = [threads EXCEPT !.to_this.pc = 3,
                                  !.to_this.m = Some(frames[f].mat_to_parent)]
    /\ UNCHANGED <<frames, route_base, ret, backed, routed>>

\* update_mat_from_parent writes self._mat_from_parent = inv(...)
ConvertFill(f) ==
    /\ threads.to_this.pc = 3
    /\ frames' = [frames EXCEPT ![f].mat_from_parent = inv(Val(threads.to_this.m))]
    /\ threads' = [threads EXCEPT !.to_this.pc = 4]
    /\ UNCHANGED <<route_base, ret, backed, routed>>

\* numpy.dot(self.mat_from_parent, pos_array) reads the attribute, which
\* raises TypeError when it is None; fill_position, and the call returns
ConvertApply(f) ==
    LET position == Val(threads.to_this.position)
        pos_array == << <<position.x>>, <<position.y>>, <<position.z>>, <<1>> >>
        mat == frames[f].mat_from_parent
    IN /\ threads.to_this.pc = 4
       /\ ret' = IF IsNone(mat)
                 THEN [Call("to_this", f, FALSE) EXCEPT !.position = Some(position)]
                 ELSE LET arr == dot(mat, pos_array)
                      IN [Call("to_this", f, TRUE)
                             EXCEPT !.position = Some(position),
                                    !.pos = Some([owner |-> f, x |-> arr[1][1],
                                                  y |-> arr[2][1], z |-> arr[3][1]])]
       /\ threads' = [threads EXCEPT !.to_this = Idle.to_this]
       /\ UNCHANGED <<frames, route_base, backed, routed>>

(* ---------------------------------------------------------------------- *)
(* Specifications                                                         *)
(* ---------------------------------------------------------------------- *)
\* The frame tree from its construction on: conversions and routes
Init ==
    /\ frames = <<>>
    /\ route_base = <<>>
    /\ ret = Call("start", 0, TRUE)
    /\ backed = <<>>
    /\ routed = {}
    /\ threads = Idle

Next ==
    \/ \E parent_cs \in 0..Len(frames), c \in FreeCtorArgs :
           NewFrame(parent_cs, c[1], c[2])
    \/ \E f \in FrameIds, owner_cs \in FrameIds :
           ToThis(f, Position(owner_cs, <<1, 2, 3>>))
    \/ \E from_cs \in FrameIds, to_cs \in FrameIds : Route(from_cs, to_cs)

Spec == Init /\ [][Next]_vars

\* The trees from their construction on, and the two searches over them
NextTree ==
    \/ \E parent_cs \in 0..Len(frames), c \in FreeCtorArgs :
           NewFrame(parent_cs, c[1], c[2])
    \/ \E from_cs \in FrameIds, to_cs \in FrameIds : Route(from_cs, to_cs)
    \/ \E cs1 \in FrameIds, cs2 \in FrameIds : ClosestCommonNode(cs1, cs2)

SpecTree == Init /\ [][NextTree]_vars

\* A root and one child, as constructed
InitPose ==
    /\ frames = << CoordinateSystem(0, "a", Origin),
                   CoordinateSystem(1, "a-b", <<1, 0, 0, 0, 0, 90>>) >>
    /\ route_base = <<>>
    /\ ret = Call("start", 0, TRUE)
    /\ backed = << <<>>, <<>> >>
    /\ routed = {}
    /\ threads = Idle

\* The life of the child's pose: every pose operation, with few arguments
NextPose ==
    \/ \E a \in FewArgs : Redefine(2, a)
    \/ \E a \in FewArgs : RedefineTuple(2, SubSeq(a, 1, 3), SubSeq(a, 4, 6))
    \/ Backup(2)
    \/ Rollback(2)
    \/ \E c \in FreeCtorArgs, d \in FewOffsets : GetDerivative(2, c[1], d)
    \/ \E f \in FrameIds, owner_cs \in FrameIds :
           ToThis(f, Position(owner_cs, <<1, 2, 3>>))

SpecPose == InitPose /\ [][NextPose]_vars

\* The arguments of redefine, redefine_tuple and get_derivative on the child
NextArgs ==
    \/ \E a \in WideArgs : Redefine(2, a)
    \/ \E a \in WideArgs : RedefineTuple(2, SubSeq(a, 1, 3), SubSeq(a, 4, 6))
    \/ \E c \in FreeCtorArgs, d \in WideArgs : GetDerivative(2, c[1], d)

SpecArgs == InitPose /\ [][NextArgs]_vars

\* The routes while poses change: a quarter turn of the child and back, a
\* sibling derived from it, and conversions and routes between the frames
NextCache ==
    \/ \E a \in OneArgs : Redefine(2, a)
    \/ Backup(2)
    \/ Rollback(2)
    \/ \E c \in FreeCtorArgs, d \in FewOffsets : GetDerivative(2, c[1], d)
    \/ \E f \in FrameIds, owner_cs \in FrameIds \ {1} :
           ToThis(f, Position(owner_cs, <<1, 2, 3>>))
    \/ \E from_cs \in FrameIds, to_cs \in FrameIds \ {1} : Route(from_cs, to_cs)

SpecCache == InitPose /\ [][NextCache]_vars

\* One thread redefining the child and one converting positions of the
\* root into it, interleaved statement by statement
NextRace ==
    \/ \E a \in FewArgs : RedefineCall(2, a)
    \/ RedefineAxis(2)
    \/ RedefineMatrix(2)
    \/ RedefineClear(2)
    \/ \E c \in PositionArgs : ConvertCall(2, Position(1, c))
    \/ ConvertTest(2)
    \/ ConvertRead(2)
    \/ ConvertFill(2)
    \/ ConvertApply(2)

SpecRace == InitPose /\ [][NextRace]_vars

(* ---------------------------------------------------------------------- *)
(* Properties                                                             *)
(* ---------------------------------------------------------------------- *)
IsInverse(A, B) == dot(A, B) = identity4 /\ dot(B, A) = identity4

Coordinates(position) == <<position.x, position.y, position.z>>

\* the pose the child of InitPose is constructed with
ChildPose == <<1, 0, 0, 0, 0, 90>>

\* C1: in every reachable state, every frame's mat_to_parent is the transform
\* of its current six pose scalars, and its mat_from_parent is None or the
\* inverse of that current mat_to_parent.
C1_MatricesCurrent ==
    \A f \in FrameIds :
        /\ frames[f].mat_to_parent =
               calc_transformation_matrix(frames[f].x, frames[f].y, frames[f].z,
                                          frames[f].rotx, frames[f].roty,
                                          frames[f].rotz)
        /\ \/ IsNone(frames[f].mat_from_parent)
           \/ IsInverse(frames[f].mat_to_parent, frames[f].mat_from_parent)

\* C1 happens: the child was redefined away from its first pose and a
\* conversion has then filled its inverse.
C1_Witness ==
    /\ ret.op = "to_this"
    /\ Pose(frames[2]) # ChildPose
    /\ ~IsNone(frames[2].mat_from_parent)

\* C2: a conversion of a position into the frame that owns it returns that
\* very object, succeeds, and changes no frame and no route.
C2_OwnFrameReturnsSame ==
    [][(ret'.op = "to_this" /\ Val(ret'.position).owner = ret'.self)
        => /\ ret'.ok
           /\ ret'.same
           /\ ret'.pos = ret'.position
           /\ frames' = frames
           /\ route_base' = route_base]_vars

\* C2 happens: a frame of a tree of three was handed one of its own positions.
C2_Witness ==
    /\ ret.op = "to_this"
    /\ Val(ret.position).owner = ret.self
    /\ ret.same
    /\ Len(frames) = 3

\* C3 as stated: right after a rollback() that follows a backup() and a
\* change of pose, the frame's pose scalars and both of its matrices are what
\* that backup() found.
C3_RollbackRestoresAll ==
    \A f \in FrameIds :
        (/\ ret.op = "rollback" /\ ret.self = f
         /\ backed[f] # <<>> /\ backed[f][1].moved)
            => Snapshot(frames[f]) = backed[f][1].at

\* C3 amended: right after rollback(), the frame's pose scalars and its
\* mat_to_parent are what the last backup() found, and its mat_from_parent
\* is None.
C3_RollbackRestoresPose ==
    \A f \in FrameIds :
        (ret.op = "rollback" /\ ret.self = f /\ backed[f] # <<>>)
            => /\ Pose(frames[f]) = backed[f][1].at.pose
               /\ frames[f].mat_to_parent = backed[f][1].at.mat_to_parent
               /\ IsNone(frames[f].mat_from_parent)

\* C3 happens: a backup() that found a filled inverse, a change of pose, and
\* the rollback().
C3_Witness ==
    /\ ret.op = "rollback"
    /\ ret.self = 2
    /\ backed[2] # <<>>
    /\ backed[2][1].moved
    /\ ~IsNone(backed[2][1].at.mat_from_parent)

\* C4: the backup slot holds the pose of the most recent backup() and nothing
\* else, so a rollback() restores that pose, and the pose of an earlier,
\* different backup() is not what a rollback() leaves.
C4_OneBackupLevel ==
    \A f \in FrameIds :
        backed[f] # <<>> =>
            /\ Stored(frames[f]) = backed[f][1].at.pose
            /\ (ret.op = "rollback" /\ ret.self = f) =>
                   /\ Pose(frames[f]) = backed[f][1].at.pose
                   /\ backed[f][1].before # backed[f][1].at.pose
                          => Pose(frames[f]) # backed[f][1].before

\* C4 happens: backup() at one pose, backup() at another, a further change
\* of pose, then rollback().
C4_Witness ==
    /\ ret.op = "rollback"
    /\ ret.self = 2
    /\ backed[2] # <<>>
    /\ backed[2][1].before # <<>>
    /\ backed[2][1].before # backed[2][1].at.pose
    /\ backed[2][1].moved

\* the frames a and b stand in trees without a common frame
Disconnected(a, b) ==
    Range(to_root(frames, a)) \cap Range(to_root(frames, b)) = {}

\* C5: a conversion between frames of different trees raises, and leaves
\* every frame and the routes as they were.
C5_DisconnectedFails ==
    [][(ret'.op = "to_this" /\ Disconnected(Val(ret'.position).owner, ret'.self))
        => /\ ~ret'.ok
           /\ frames' = frames
           /\ route_base' = route_base]_vars

\* C6: redefine and redefine_tuple replace exactly the scalars whose
\* arguments are supplied, keep the others, succeed, and leave the frame's
\* parent, name and backup slot and every other frame alone.
C6_RedefineExact ==
    [][\A f \in FrameIds, a \in WideArgs :
          (/\ ret'.op \in {"redefine", "redefine_tuple"}
           /\ ret'.self = f
           /\ \/ Redefine(f, a)
              \/ RedefineTuple(f, SubSeq(a, 1, 3), SubSeq(a, 4, 6)))
          => /\ ret'.ok
             /\ \A i \in 1..6 :
                    Pose(frames'[f])[i] =
                        IF IsNone(a[i]) THEN Pose(frames[f])[i] ELSE Val(a[i])
             /\ frames'[f].parent = frames[f].parent
             /\ frames'[f].name = frames[f].name
             /\ Stored(frames'[f]) = Stored(frames[f])
             /\ Len(frames') = Len(frames)
             /\ \A g \in FrameIds \ {f} : frames'[g] = frames[g]]_vars

\* C6 happens: a redefine with a supplied y of 2 and a supplied x of 0 has
\* left the other four scalars of the child as constructed.
C6_Witness ==
    /\ ret.op = "redefine"
    /\ Pose(frames[2]) = <<0, 2, 0, 0, 0, 90>>

\* C7: get_derivative succeeds for every combination of supplied and
\* omitted offsets, and the new frame has the parent of the source and, axis
\* by axis, the source's scalar plus the supplied offset or the source's
\* scalar alone.
C7_DerivativePerAxis ==
    [][\A f \in FrameIds, c \in CtorArgs, d \in WideArgs :
          (ret'.op = "get_derivative" /\ ret'.self = f /\ GetDerivative(f, c[1], d))
          => /\ ret'.ok
             /\ Len(frames') = Len(frames) + 1
             /\ frames'[Len(frames')].parent = frames[f].parent
             /\ \A i \in 1..6 :
                    Pose(frames'[Len(frames')])[i] =
                        IF IsNone(d[i]) THEN Pose(frames[f])[i]
                        ELSE Pose(frames[f])[i] + Val(d[i])]_vars

\* the chains A parent of B parent of C
Chains ==
    {ch \in FrameIds \X FrameIds \X FrameIds :
        frames[ch[2]].parent = ch[1] /\ frames[ch[3]].parent = ch[2]}

\* C8: for a chain A, B, C and a position of C, the conversion into A gives
\* the coordinates that the conversion into B followed by the conversion of
\* its result into A gives.
C8_DirectEqualsStepwise ==
    \A ch \in Chains, c \in PositionArgs :
        LET direct == to_this(frames, route_base, ch[1], Position(ch[3], c))
            step == to_this(frames, route_base, ch[2], Position(ch[3], c))
            stepwise == to_this(step.frames, step.route_base, ch[1], step.pos)
        IN /\ direct.ok
           /\ step.ok
           /\ stepwise.ok
           /\ Coordinates(direct.pos) = Coordinates(stepwise.pos)

\* C9: for a frame F with parent G and a position of G, converting into F
\* and the result back into G gives the coordinates of the position, at
\* whatever pose F has been redefined to.
C9_RoundTrip ==
    \A F \in FrameIds, c \in PositionArgs :
        frames[F].parent # 0 =>
            LET G == frames[F].parent
                there == to_this(frames, route_base, F, Position(G, c))
                back == to_this(there.frames, there.route_base, G, there.pos)
            IN /\ there.ok
               /\ back.ok
               /\ back.pos = Position(G, c)

\* C9 happens: the child was redefined and has then converted a position
\* of its parent.
C9_Witness ==
    /\ ret.op = "to_this"
    /\ ret.self = 2
    /\ Val(ret.position).owner = 1
    /\ ret.ok
    /\ Pose(frames[2]) # ChildPose

NamesDistinct ==
    \A f \in FrameIds, g \in FrameIds : frames[f].name = frames[g].name => f = g

\* C10: with pairwise distinct names, the path the dict holds for a pair of
\* frames is the path the search builds for that pair.
C10_CachedRouteIsFresh ==
    NamesDistinct =>
        \A from_cs \in FrameIds, to_cs \in FrameIds :
            route_desc(frames, from_cs, to_cs) \in DOMAIN route_base
                => Some(route_base[route_desc(frames, from_cs, to_cs)])
                       = build_route(frames, from_cs, to_cs)

(* ---------------------------------------------------------------------- *)
(* Routes and the tree                                                    *)
(* ---------------------------------------------------------------------- *)
\* a is f or an ancestor of f
AncestorOrSelf(a, f) == a \in Range(to_root(frames, f))

\* the number of frames from f up to its root
Depth(f) == Len(to_root(frames, f))

\* the lowest common ancestor of two frames of one tree: the deepest frame
\* that is an ancestor of both (or one of them)
Lowest(a, b) ==
    CHOOSE n \in FrameIds :
        /\ AncestorOrSelf(n, a) /\ AncestorOrSelf(n, b)
        /\ \A m \in FrameIds :
               (AncestorOrSelf(m, a) /\ AncestorOrSelf(m, b)) => Depth(m) <= Depth(n)

\* the place of the step tagged "root" in a path
PivotAt(path) == CHOOSE k \in 1..Len(path) : path[k][2] = "root"

\* the frames of the steps after the pivot
Downs(path) == [i \in 1..(Len(path) - PivotAt(path)) |-> path[PivotAt(path) + i][1]]

\* the frames of the chain of to_cs below the pivot, from the one next to
\* the pivot down to to_cs itself
StrictlyBelow(pivot, to_cs) ==
    SelectSeq(Reversed(to_root(frames, to_cs)),
              LAMBDA x : x # pivot /\ AncestorOrSelf(pivot, x))

\* the same without to_cs
StrictlyBetween(pivot, to_cs) ==
    SelectSeq(StrictlyBelow(pivot, to_cs), LAMBDA x : x # to_cs)

\* C13: the path route(from, to) returns for two frames of one tree has one
\* step tagged "root", at the lowest common ancestor; before it the frames
\* from `from` upward, each tagged "up"; after it steps tagged "down", each
\* the child of the step before.
C13_RouteShape ==
    (ret.op = "route" /\ connected(frames, ret.self, ret.cs)) =>
        /\ ~IsNone(ret.path)
        /\ LET path == Val(ret.path)
               k == PivotAt(path)
           IN /\ Cardinality({i \in 1..Len(path) : path[i][2] = "root"}) = 1
              /\ path[k][1] = Lowest(ret.self, ret.cs)
              /\ k <= Depth(ret.self)
              /\ \A i \in 1..k : path[i][1] = to_root(frames, ret.self)[i]
              /\ \A i \in 1..(k - 1) : path[i][2] = "up"
              /\ \A i \in (k + 1)..Len(path) :
                     /\ path[i][2] = "down"
                     /\ frames[path[i][1]].parent = path[i - 1][1]

C16_PairsKeepOwnEntry ==
    NamesDistinct =>
        \A A \in FrameIds, B \in FrameIds, C \in FrameIds, D \in FrameIds :
            (<<A, B>> # <<C, D>> /\ route_desc(frames, A, B) \in DOMAIN route_base)
                => route_desc(frames, C, D) # route_desc(frames, A, B)

\* C18: closest_common_node(A, B) is the lowest common ancestor of A and B,
\* A itself when A is B or an ancestor of B, and None when they share none.
C18_ClosestIsLowest ==
    ret.op = "closest_common_node" =>
        IF connected(frames, ret.self, ret.cs)
        THEN /\ ret.node = Some(Lowest(ret.self, ret.cs))
             /\ AncestorOrSelf(ret.self, ret.cs) => ret.node = Some(ret.self)
        ELSE ret.node = None

\* C18 happens: the call for two children of one frame returned that frame.
C18_Witness ==
    /\ ret.op = "closest_common_node"
    /\ ret.self # ret.cs
    /\ ~IsNone(ret.node)
    /\ frames[ret.self].parent = Val(ret.node)
    /\ frames[ret.cs].parent = Val(ret.node)

(* ---------------------------------------------------------------------- *)
(* The dict of routes                                                     *)
(* ---------------------------------------------------------------------- *)
\* C11: a call of route(A, B) that follows an earlier call for the same two
\* frames of one tree returns the path the first call returned, and reads
\* to_root of neither frame.
C11_LaterCallsFromCache ==
    [][ret'.op = "route" =>
          \A e \in routed :
              (e[1] = ret'.self /\ e[2] = ret'.cs)
                  => /\ ret'.path = e[3]
                     /\ ret'.to_root_calls = 0]_vars

\* C11 happens: a second call for two different frames of one tree, served
\* without a search.
C11_Witness ==
    /\ ret.op = "route"
    /\ ret.self # ret.cs
    /\ ret.to_root_calls = 0
    /\ ~IsNone(ret.path)
    /\ <<ret.self, ret.cs, ret.path>> \in routed

RECURSIVE apply_in_order(_, _, _)
apply_in_order(mats, i, v) ==
    IF i > Len(mats) THEN v ELSE apply_in_order(mats, i + 1, dot(mats[i], v))

\* the steps of a path that are not its pivot
NonPivot(path) == SelectSeq(path, LAMBDA node : node[2] # "root")

\* C15: a conversion along a route gathers one matrix per step that is not
\* the pivot, mat_to_parent of an "up" frame and the (filled) mat_from_parent
\* of a "down" frame, and the returned coordinates are those matrices
\* applied to the position one after the other in route order.
C15_ComposedInRouteOrder ==
    [][(/\ ret'.op = "to_this" /\ ret'.ok
        /\ calls_route(frames, ret'.self, Val(ret'.position)))
       => LET position == Val(ret'.position)
              path == Val(route(frames, route_base, position.owner, ret'.self).out)
              steps == NonPivot(path)
              gathered == transformation_matrices(frames, path)
              pos_array == << <<position.x>>, <<position.y>>, <<position.z>>, <<1>> >>
              arr == apply_in_order(gathered, 1, pos_array)
          IN /\ Len(gathered) = Len(steps)
             /\ \A i \in 1..Len(steps) :
                    IF steps[i][2] = "up"
                    THEN gathered[i] = frames[steps[i][1]].mat_to_parent
                    ELSE /\ gathered[i] = frames'[steps[i][1]].mat_from_parent
                         /\ IsInverse(frames[steps[i][1]].mat_to_parent, gathered[i])
             /\ Coordinates(Val(ret'.pos)) = <<arr[1][1], arr[2][1], arr[3][1]>>]_vars

\* C15 happens: a position of one child was converted into its sibling,
\* which had no inverse yet.
C15_Witness ==
    /\ ret.op = "to_this" /\ ret.ok
    /\ calls_route(frames, ret.self, Val(ret.position))
    /\ frames[ret.self].parent = frames[Val(ret.position).owner].parent
    /\ frames[ret.self].parent # 0
    /\ ~IsNone(frames[ret.self].mat_from_parent)

\* C19: for a position of a child or of the parent of the target, the
\* matrices the conversion along route(owner, target) would gather are the
\* one matrix the shortcut applies.
C19_ShortcutsAgree ==
    \A T \in FrameIds, owner \in FrameIds :
        LET r == route(frames, route_base, owner, T)
        IN /\ frames[owner].parent = T =>
                  /\ ~IsNone(r.out)
                  /\ transformation_matrices(frames, Val(r.out))
                         = <<frames[owner].mat_to_parent>>
           /\ (owner = frames[T].parent /\ frames[owner].parent # T) =>
                  /\ ~IsNone(r.out)
                  /\ transformation_matrices(frames, Val(r.out))
                         = <<update_mat_from_parent_if_none(frames[T]).mat_from_parent>>

\* C20: to_this changes no frame but for filling a mat_from_parent that was
\* None, on the target frame or on a frame of a "down" step of the route.
C20_OnlyFillsInverses ==
    [][ret'.op = "to_this"
       => LET position == Val(ret'.position)
              r == route(frames, route_base, position.owner, ret'.self)
              downs == IF calls_route(frames, ret'.self, position) /\ ~IsNone(r.out)
                       THEN {Val(r.out)[i][1] :
                               i \in {j \in 1..Len(Val(r.out)) : Val(r.out)[j][2] = "down"}}
                       ELSE {}
          IN /\ Len(frames') = Len(frames)
             /\ \A f \in FrameIds :
                    /\ [frames'[f] EXCEPT !.mat_from_parent = None]
                           = [frames[f] EXCEPT !.mat_from_parent = None]
                    /\ frames'[f].mat_from_parent # frames[f].mat_from_parent
                           => /\ IsNone(frames[f].mat_from_parent)
                              /\ f = ret'.self \/ f \in downs]_vars

\* C20 happens: a conversion between two children of one frame has filled
\* the inverse of the target and left the source without one.
C20_Witness ==
    /\ ret.op = "to_this" /\ ret.ok
    /\ calls_route(frames, ret.self, Val(ret.position))
    /\ ~IsNone(frames[ret.self].mat_from_parent)
    /\ IsNone(frames[Val(ret.position).owner].mat_from_parent)

(* ---------------------------------------------------------------------- *)
(* Two threads                                                            *)
(* ---------------------------------------------------------------------- *)
\* C12: a conversion interleaved with a redefine of its frame sees the
\* frame before or after the redefine: it returns a Position, having found
\* the inverse it tested for, and when both calls have returned the frame
\* holds no inverse of an earlier mat_to_parent.
C12_ConversionSeesWholeRedefine ==
    /\ ret.op = "to_this" => ret.ok
    /\ (threads.redefine.pc = 0 /\ threads.to_this.pc = 0) =>
           \A f \in FrameIds :
               \/ IsNone(frames[f].mat_from_parent)
               \/ IsInverse(frames[f].mat_to_parent, frames[f].mat_from_parent)


=============================================================================
